---- MODULE Spec2Model ----
(***************************************************************************)
(* State-machine model of the two clients of the repository:               *)
(*   SunoApi  (src/packages/suno/src/index.ts)                             *)
(*   FakeYou  (src/packages/fakeyou/src/index.ts)                          *)
(* Every action runs from one event-loop event (a public call, a response  *)
(* of fetch, a timer) to the next suspension of the async function, which  *)
(* is how a single-threaded JavaScript runtime interleaves callers.        *)
(***************************************************************************)
EXTENDS Integers, Sequences, FiniteSets, TLC

\* The value of an unset optional field (undefined / null).
Undef == "undefined"

(***************************************************************************)
(* Input domains                                                           *)
(***************************************************************************)
Cookies == {"ck1", "ck2"}
Sids == {"sid1", "sid2"}
\* ClerkToken.jwt is a string (src/unnamed/part_000 lines 19-22).
Jwts == {"jwt1", "jwt2"}
SongIdLists == {<<"c1">>, <<"c1", "c2">>}
ClipStatuses == {"queued", "streaming", "complete", "error"}
\* metadata.prompt of a clip, as a sequence of characters.
Prompts == {<<>>, <<"x", "\n", " ", "\n", "\n", "y", " ">>}
\* Seconds a request may take to be answered.
Latencies == {0, 45}
Callers == {"a", "b"}

\* Requests and responses kept of one call's history.
MaxTrace == 4

(***************************************************************************)
(* Program constants of SunoApi, in seconds                                *)
(***************************************************************************)
Deadline == 100
InitialSleep == 5
PollSleepMin == 3
PollSleepMax == 6
RenewSleepMin == 1
RenewSleepMax == 2
LyricsSleep == 2

BASE_URL == "https://studio-api.suno.ai"
CLERK_BASE_URL == "https://clerk.suno.com"

VARIABLES
    cookie,         \* SunoApi.cookie
    sid,            \* SunoApi.sid
    currentToken,   \* SunoApi.currentToken
    task,           \* per caller: the position and locals of its pending call
    lastAnswered,   \* the jwt of the renewal request the service answered last
    cleared,        \* deinit has returned and init has not been called since
    sessionCookie,  \* FakeYou.sessionCookie
    fy              \* the position and locals of the FakeYou caller

sunoVars == <<cookie, sid, currentToken, task, lastAnswered, cleared>>
fyVars == <<sessionCookie, fy>>
vars == <<cookie, sid, currentToken, task, lastAnswered, cleared, sessionCookie, fy>>

(***************************************************************************)
(* Pure helpers                                                            *)
(***************************************************************************)
Min(a, b) == IF a < b THEN a ELSE b

IsSpace(c) == c \in {" ", "\n"}

\* String.prototype.split('\n') on a sequence of characters.
RECURSIVE SplitLines(_)
SplitLines(s) ==
    IF \A i \in 1..Len(s) : s[i] # "\n"
    THEN <<s>>
    ELSE LET i == CHOOSE j \in 1..Len(s) :
                      s[j] = "\n" /\ \A m \in 1..(j - 1) : s[m] # "\n"
         IN <<SubSeq(s, 1, i - 1)>> \o SplitLines(SubSeq(s, i + 1, Len(s)))

\* String.prototype.trim(): leading and trailing white space removed.
RECURSIVE Trim(_)
Trim(s) ==
    IF s = <<>> THEN s
    ELSE IF IsSpace(s[1]) THEN Trim(Tail(s))
    ELSE IF IsSpace(s[Len(s)]) THEN Trim(SubSeq(s, 1, Len(s) - 1))
    ELSE s

\* Array.prototype.join('\n').
RECURSIVE JoinLines(_)
JoinLines(ls) ==
    IF ls = <<>> THEN <<>>
    ELSE IF Len(ls) = 1 THEN ls[1]
    ELSE ls[1] \o <<"\n">> \o JoinLines(Tail(ls))

\* SunoApi.parseLyrics
parseLyrics(prompt) ==
    LET lines == SelectSeq(SplitLines(prompt), LAMBDA line : Trim(line) # <<>>)
    IN JoinLines(lines)

\* One element of the array get() returns.
AudioInfoOfFeed(audio) ==
    [id |-> audio.id,
     status |-> audio.status,
     lyric |-> IF audio.prompt # <<>> THEN parseLyrics(audio.prompt) ELSE <<>>,
     prompt |-> audio.prompt]

\* One element of the array generateSongs returns when wait_audio is false.
AudioInfoOfClip(audio) ==
    [id |-> audio.id,
     status |-> audio.status,
     lyric |-> audio.prompt,
     prompt |-> audio.prompt]

AudioInfosOfFeed(feed) == [i \in 1..Len(feed) |-> AudioInfoOfFeed(feed[i])]

AudioInfosOfClips(clips) == [i \in 1..Len(clips) |-> AudioInfoOfClip(clips[i])]

\* The feed answers one clip per requested id.
FeedResponses(ids, prompt) ==
    {[i \in 1..Len(ids) |-> [id |-> ids[i], status |-> st[i], prompt |-> prompt]] :
        st \in [1..Len(ids) -> ClipStatuses]}

\* generateSongs: the two conditions that end the wait loop.
AllCompleted(response) ==
    \A i \in 1..Len(response) : response[i].status \in {"streaming", "complete"}

\* Mutant: clips in error do not end the wait loop.
AllError_Never(response) == FALSE

AllError(response) ==
    \A i \in 1..Len(response) : response[i].status = "error"

\* sleep(x, y): the delays the timer can be armed with.
SleepDelays(x, y) == Min(x, y) .. (IF x < y THEN y ELSE x)

(***************************************************************************)
(* SunoApi: the state one step works on, s = [g |-> the instance's fields, *)
(* k |-> the caller's pending call], and the code as transformers of it.   *)
(***************************************************************************)
LyricsStatuses == {"running", "complete", "error"}

\* A request as fetch receives it.
Request(base, path, method, auth, ck, body) ==
    [base |-> base, path |-> path, method |-> method,
     auth |-> auth, cookie |-> ck, body |-> body]

NoRequest == Request(Undef, Undef, Undef, Undef, Undef, Undef)

IdleTask ==
    [pc |-> "idle",            \* the await the call is suspended at (source line)
     stack |-> <<>>,           \* the call sites to return to, innermost first
     path |-> Undef,           \* the path of the request awaited
     op |-> "none",            \* the public method called
     arg |-> Undef,            \* the cookie init was called with
     waitAudio |-> FALSE,      \* wait_audio
     isWait |-> FALSE,         \* keepAlive's isWait
     jwt |-> Undef,            \* renewResponse.jwt while keepAlive sleeps
     songIds |-> <<>>,
     clips |-> <<>>,           \* response.clips of the submit request
     jobPrompt |-> <<>>,       \* the metadata.prompt the service keeps of the job's clips
     lastResponse |-> <<>>,
     timing |-> FALSE,         \* startTime has been taken (line 253)
     elapsed |-> 0,            \* Date.now() - startTime, in seconds
     outcome |-> "none",       \* none | returned | threw
     err |-> Undef,            \* the message of the error thrown
     audios |-> <<>>,          \* the AudioInfo[] returned
     value |-> Undef,          \* any other value returned
     \* history of the call, for the properties:
     trace |-> <<>>,           \* the kinds of its first MaxTrace requests and responses
     more |-> FALSE,           \* the call made more of them
     api |-> NoRequest,        \* its first request to the service API
     given |-> Undef,          \* the body fetchSunoApi was called with for it
     lyricsStatus |-> Undef,   \* the status the last read of the lyrics job showed
     renewed |-> Undef,        \* the jwt its last answered renewal returned
     lastRead |-> <<>>,        \* the last status read answered in the wait loop
     terminalRead |-> FALSE,   \* a status read answered before the deadline showed
                               \* every clip in a terminal state
     prevOp |-> "none",        \* the caller's previous call
     prevOutcome |-> "none",
     prevRenewed |-> Undef,
     pre |-> [cookie |-> Undef, sid |-> Undef, token |-> Undef]]
                               \* the credentials when keepAlive was called

State(t) ==
    [g |-> [cookie |-> cookie, sid |-> sid, token |-> currentToken,
            last |-> lastAnswered, cleared |-> cleared],
     k |-> task[t]]

Commit(t, s) ==
    /\ cookie' = s.g.cookie
    /\ sid' = s.g.sid
    /\ currentToken' = s.g.token
    /\ lastAnswered' = s.g.last
    /\ cleared' = s.g.cleared
    /\ task' = [task EXCEPT ![t] = s.k]
    /\ UNCHANGED fyVars

\* The history of the call: what was sent or received, in order.
Log(s, kind) ==
    IF Len(s.k.trace) < MaxTrace
    THEN [s EXCEPT !.k.trace = Append(@, kind)]
    ELSE [s EXCEPT !.k.more = TRUE]

\* The locals of a call end with it.
Ended(k) ==
    [k EXCEPT !.pc = "idle", !.stack = <<>>, !.path = Undef,
              !.isWait = FALSE, !.jwt = Undef,
              !.songIds = <<>>, !.clips = <<>>, !.jobPrompt = <<>>,
              !.lastResponse = <<>>,
              !.timing = FALSE, !.elapsed = 0]

\* A throw: no caller in the class catches, so the public call rejects.
Throw(s, msg) ==
    [s EXCEPT !.k = [Ended(@) EXCEPT !.outcome = "threw", !.err = msg]]

ReturnValue(s, v) ==
    [s EXCEPT !.k = [Ended(@) EXCEPT !.outcome = "returned", !.value = v]]

ReturnAudios(s, a) ==
    [s EXCEPT !.k = [Ended(@) EXCEPT !.outcome = "returned", !.audios = a]]

\* fetchSunoApi, lines 52-66: the request handed to fetch. The body option is
\* destructured out of the options and is not among the fields passed on.
SunoRequest(s, base, path, method, body) ==
    Request(base, path, method,
            s.g.token,
            IF s.g.cookie = Undef THEN "" ELSE s.g.cookie,
            Undef)

RequestKind(base, path) ==
    IF base = BASE_URL THEN "api"
    ELSE IF path = "/v1/client" THEN "session" ELSE "renew"

\* fetchSunoApi up to its await of fetch; the call resumes at `at`.
fetchSunoApi(s, base, path, method, body, at) ==
    LET req == SunoRequest(s, base, path, method, body)
        r == Log(s, RequestKind(base, path))
    IN [r EXCEPT !.k.pc = at,
                 !.k.path = path,
                 !.k.api = IF base = BASE_URL /\ @ = NoRequest THEN req ELSE @,
                 !.k.given = IF base = BASE_URL /\ s.k.api = NoRequest THEN body ELSE @]

\* fetchSunoApi, lines 67-69.
FetchFailed(s, path) == Throw(Log(s, "failed"), "Failed to fetch " \o path)

\* Mutant: the renewal is requested without a session id.
keepAlive_Unguarded(s, isWait, site) ==
    [fetchSunoApi(s, CLERK_BASE_URL, "/v1/client/sessions/" \o s.g.sid \o "/tokens",
                  "POST", Undef, "keepAlive:116")
       EXCEPT !.k.stack = <<site>> \o @, !.k.isWait = isWait]

\* keepAlive, lines 111-122.
keepAlive(s, isWait, site) ==
    IF s.g.sid = Undef
    THEN Throw(s, "Session ID is not set. Cannot renew token.")
    ELSE [fetchSunoApi(s, CLERK_BASE_URL, "/v1/client/sessions/" \o s.g.sid \o "/tokens",
                       "POST", Undef, "keepAlive:116")
            EXCEPT !.k.stack = <<site>> \o @, !.k.isWait = isWait]

\* get, line 391, called from `site`.
get(s, site) ==
    keepAlive([s EXCEPT !.k.stack = <<site>> \o @], FALSE, "get:391")

\* generateSongs, line 256: the test of the wait loop, and what follows it.
whileLoop(s) ==
    IF s.k.elapsed < Deadline
    THEN get(s, "generateSongs:257")
    ELSE ReturnAudios(s, s.k.lastResponse)

\* The code that follows each `await this.keepAlive(...)`.
keepAliveReturn(s) ==
    LET site == Head(s.k.stack)
        r == [s EXCEPT !.k.stack = Tail(@)]
    IN CASE site = "init:77" -> ReturnValue(r, "this")
         [] site = "keepAlive" -> ReturnValue(r, Undef)
         [] site = "generate:143" -> keepAlive(r, FALSE, "generateSongs:229")
         [] site = "generateSongs:229" ->
                fetchSunoApi(r, BASE_URL, "/api/generate/v2/", "POST", "payload",
                             "generateSongs:242")
         [] site = "generateSongs:267" -> whileLoop(r)
         [] site = "generateSongs:271" ->
                ReturnAudios(r, AudioInfosOfClips(r.k.clips))
         [] site = "concatenate:165" ->
                fetchSunoApi(r, BASE_URL, "/api/generate/concat/v2/", "POST", "clip_id",
                             "concatenate:166")
         [] site = "generateLyrics:298" ->
                fetchSunoApi(r, BASE_URL, "/api/generate/lyrics/", "POST", "prompt",
                             "generateLyrics:300")
         [] site = "get:391" ->
                fetchSunoApi(r, BASE_URL, "/api/feed/", "GET", Undef, "get:392")
         [] site = "getClip:423" ->
                fetchSunoApi(r, BASE_URL, "/api/clip/", "GET", Undef, "getClip:424")
         [] site = "getCredits:432" ->
                fetchSunoApi(r, BASE_URL, "/api/billing/info/", "GET", Undef,
                             "getCredits:433")

\* Mutant: the renewed token is not stored.
keepAliveStore_Dropped(s, jwt) ==
    keepAliveReturn([s EXCEPT !.k.jwt = Undef])

\* keepAlive, line 127.
keepAliveStore(s, jwt) ==
    keepAliveReturn([s EXCEPT !.g.token = jwt, !.k.jwt = Undef])

\* keepAlive, lines 123-127, once the renewal request is answered with jwt.
keepAliveAnswered(s, jwt) ==
    IF s.k.isWait
    THEN [s EXCEPT !.k.jwt = jwt, !.k.pc = "keepAlive:124"]
    ELSE keepAliveStore(s, jwt)

\* getAuthToken, lines 97-103, then init, line 77.
getAuthTokenAnswered(s, id) ==
    IF id = Undef
    THEN Throw(s, "Failed to get session id, you may need to update the Suno cookie.")
    ELSE keepAlive([s EXCEPT !.g.sid = id], FALSE, "init:77")

\* Mutant: the bearer token survives deinit.
deinitFields_KeepsToken(g) ==
    [g EXCEPT !.cookie = Undef, !.sid = Undef]

\* Mutant: the session id survives deinit.
deinitFields_KeepsSid(g) ==
    [g EXCEPT !.cookie = Undef, !.token = Undef]

\* deinit, lines 82-84.
deinitFields(g) ==
    [g EXCEPT !.cookie = Undef, !.sid = Undef, !.token = Undef]

\* Mutant: the response of an unfinished read is not remembered.
loopBody_Forgets(s, response) ==
    IF AllCompleted(response) \/ AllError(response)
    THEN ReturnAudios(s, response)
    ELSE [s EXCEPT !.k.pc = "generateSongs:266"]

\* generateSongs, lines 258-266, on the response of get.
loopBody(s, response) ==
    IF AllCompleted(response) \/ AllError(response)
    THEN ReturnAudios(s, response)
    ELSE [s EXCEPT !.k.lastResponse = response, !.k.pc = "generateSongs:266"]

\* get, lines 396-415, and the return to its caller.
getAnswered(s, feed) ==
    LET audios == AudioInfosOfFeed(feed)
        site == Head(s.k.stack)
        r == [s EXCEPT !.k.stack = Tail(@)]
    IN IF site = "generateSongs:257"
       THEN loopBody(r, audios)
       ELSE ReturnAudios(r, audios)

\* generateSongs, lines 250-271, on the response of the submit request.
submitAnswered(s, clips) ==
    LET r == [s EXCEPT !.k.songIds = [i \in 1..Len(clips) |-> clips[i].id],
                       !.k.jobPrompt = clips[1].prompt]
    IN IF r.k.waitAudio
       THEN [r EXCEPT !.k.timing = TRUE, !.k.elapsed = 0, !.k.lastResponse = <<>>,
                      !.k.pc = "generateSongs:255"]
       ELSE keepAlive([r EXCEPT !.k.clips = clips], TRUE, "generateSongs:271")

\* generateLyrics, lines 315-327, on a response of the lyrics job.
lyricsAnswered(s, status) ==
    LET r == [s EXCEPT !.k.lyricsStatus = status]
    IN IF status # "complete"
       THEN [r EXCEPT !.k.pc = "generateLyrics:316"]
       ELSE ReturnValue(r, "lyrics")

\* Time passing while the wait loop is suspended.
Elapse(s, d) ==
    IF s.k.timing THEN [s EXCEPT !.k.elapsed = Min(@ + d, Deadline)] ELSE s

(***************************************************************************)
(* SunoApi: the public methods, each up to its first suspension            *)
(***************************************************************************)
\* A caller with no call pending calls `op`; the history starts anew.
Begin(t, op) ==
    [State(t) EXCEPT
        !.k = [IdleTask EXCEPT
                  !.op = op,
                  !.prevOp = task[t].op,
                  !.prevOutcome = task[t].outcome,
                  !.prevRenewed = task[t].renewed]]

\* Mutant: init does not keep the cookie.
init_DropsCookie(t, c) ==
    /\ task[t].pc = "idle"
    /\ Commit(t, fetchSunoApi([Begin(t, "init") EXCEPT !.g.cleared = FALSE, !.k.arg = c],
                              CLERK_BASE_URL, "/v1/client", "GET", Undef,
                              "getAuthToken:93"))

init(t, c) ==
    /\ task[t].pc = "idle"
    /\ Commit(t, fetchSunoApi([Begin(t, "init") EXCEPT !.g.cookie = c,
                                                       !.g.cleared = FALSE, !.k.arg = c],
                              CLERK_BASE_URL, "/v1/client", "GET", Undef,
                              "getAuthToken:93"))

deinit(t) ==
    /\ task[t].pc = "idle"
    /\ Commit(t, ReturnValue([Begin(t, "deinit") EXCEPT
                                 !.g = [deinitFields(@) EXCEPT !.last = Undef,
                                                               !.cleared = TRUE]],
                             "this"))

KeepAlive(t, isWait) ==
    /\ task[t].pc = "idle"
    /\ Commit(t, keepAlive([Begin(t, "keepAlive") EXCEPT
                               !.k.pre = [cookie |-> cookie, sid |-> sid,
                                          token |-> currentToken]],
                           isWait, "keepAlive"))

Generate(t, wait_audio) ==
    /\ task[t].pc = "idle"
    /\ Commit(t, keepAlive([Begin(t, "generate") EXCEPT !.k.waitAudio = wait_audio],
                           FALSE, "generate:143"))

CustomGenerate(t, wait_audio) ==
    /\ task[t].pc = "idle"
    /\ Commit(t, keepAlive([Begin(t, "customGenerate") EXCEPT
                               !.k.waitAudio = wait_audio],
                           FALSE, "generateSongs:229"))

Concatenate(t) ==
    /\ task[t].pc = "idle"
    /\ Commit(t, keepAlive(Begin(t, "concatenate"), FALSE, "concatenate:165"))

GenerateLyrics(t) ==
    /\ task[t].pc = "idle"
    /\ Commit(t, keepAlive(Begin(t, "generateLyrics"), FALSE, "generateLyrics:298"))

ExtendAudio(t) ==
    /\ task[t].pc = "idle"
    /\ Commit(t, fetchSunoApi(Begin(t, "extendAudio"), BASE_URL, "/api/generate/v2/",
                              "POST", "continue_clip_id", "extendAudio:348"))

Get(t, songIds) ==
    /\ task[t].pc = "idle"
    /\ Commit(t, get([Begin(t, "get") EXCEPT !.k.songIds = songIds], "caller"))

GetClip(t) ==
    /\ task[t].pc = "idle"
    /\ Commit(t, keepAlive(Begin(t, "getClip"), FALSE, "getClip:423"))

GetCredits(t) ==
    /\ task[t].pc = "idle"
    /\ Commit(t, keepAlive(Begin(t, "getCredits"), FALSE, "getCredits:432"))

(***************************************************************************)
(* SunoApi: the events that resume a suspended call                        *)
(***************************************************************************)
FetchSites ==
    {"getAuthToken:93", "keepAlive:116", "concatenate:166", "generateSongs:242",
     "generateLyrics:300", "generateLyrics:311", "generateLyrics:317",
     "extendAudio:348", "get:392", "getClip:424", "getCredits:433"}

\* A request is answered with a status that is not ok.
RequestFailed(t) ==
    /\ task[t].pc \in FetchSites
    /\ \E d \in Latencies :
          Commit(t, FetchFailed(Elapse(State(t), d), task[t].path))

\* The Clerk client request of getAuthToken is answered.
SessionAnswered(t) ==
    /\ task[t].pc = "getAuthToken:93"
    /\ \E id \in Sids \cup {Undef} :
          Commit(t, getAuthTokenAnswered(Log(State(t), "session:ok"), id))

\* The renewal request of keepAlive is answered.
RenewAnswered(t) ==
    /\ task[t].pc = "keepAlive:116"
    /\ \E jwt \in Jwts, d \in Latencies :
          Commit(t, keepAliveAnswered(
                        Elapse([Log(State(t), "renew:ok") EXCEPT
                                   !.g.last = jwt, !.k.renewed = jwt], d),
                        jwt))

\* The timer of sleep(1, 2) in keepAlive fires.
RenewSlept(t) ==
    /\ task[t].pc = "keepAlive:124"
    /\ \E d \in SleepDelays(RenewSleepMin, RenewSleepMax) :
          Commit(t, keepAliveStore(Elapse(State(t), d), task[t].jwt))

\* The submit request of generateSongs is answered.
SubmitAnswered(t) ==
    /\ task[t].pc = "generateSongs:242"
    /\ \E ids \in SongIdLists, prompt \in Prompts :
          LET clips == [i \in 1..Len(ids) |->
                           [id |-> ids[i], status |-> "queued", prompt |-> prompt]]
          IN Commit(t, submitAnswered(Log(State(t), "api:ok"), clips))

\* The timer of sleep(5) before the wait loop fires.
InitialSlept(t) ==
    /\ task[t].pc = "generateSongs:255"
    /\ Commit(t, whileLoop(Elapse(State(t), InitialSleep)))

\* The feed request of get is answered.
FeedAnswered(t) ==
    /\ task[t].pc = "get:392"
    /\ \E d \in Latencies, prompt \in Prompts :
          \E feed \in FeedResponses(task[t].songIds, prompt) :
              /\ Head(task[t].stack) = "generateSongs:257" => prompt = task[t].jobPrompt
              /\ LET s == Elapse(Log(State(t), "api:ok"), d)
                     polled == Head(s.k.stack) = "generateSongs:257"
                     terminal == /\ s.k.elapsed < Deadline
                                 /\ \A i \in 1..Len(feed) :
                                       feed[i].status \in {"streaming", "complete", "error"}
                     h == IF polled
                          THEN [s EXCEPT !.k.lastRead = feed,
                                         !.k.terminalRead = @ \/ terminal]
                          ELSE s
                 IN Commit(t, getAnswered(h, feed))

\* The timer of sleep(3, 6) in the wait loop fires.
PollSlept(t) ==
    /\ task[t].pc = "generateSongs:266"
    /\ \E d \in SleepDelays(PollSleepMin, PollSleepMax) :
          Commit(t, keepAlive(Elapse(State(t), d), TRUE, "generateSongs:267"))

\* The request that starts the lyrics job is answered.
LyricsSubmitted(t) ==
    /\ task[t].pc = "generateLyrics:300"
    /\ Commit(t, fetchSunoApi(Log(State(t), "api:ok"), BASE_URL,
                              "/api/generate/lyrics/id", "GET", Undef,
                              "generateLyrics:311"))

\* A read of the lyrics job is answered.
LyricsAnswered(t) ==
    /\ task[t].pc \in {"generateLyrics:311", "generateLyrics:317"}
    /\ \E status \in LyricsStatuses :
          Commit(t, lyricsAnswered(Log(State(t), "api:ok"), status))

\* The timer of sleep(2) in generateLyrics fires.
LyricsSlept(t) ==
    /\ task[t].pc = "generateLyrics:316"
    /\ Commit(t, fetchSunoApi(State(t), BASE_URL, "/api/generate/lyrics/id", "GET",
                              Undef, "generateLyrics:317"))

\* The request of concatenate, extendAudio, getClip or getCredits is answered.
PlainAnswered(t) ==
    /\ task[t].pc \in {"concatenate:166", "extendAudio:348", "getClip:424",
                       "getCredits:433"}
    /\ Commit(t, ReturnValue(Log(State(t), "api:ok"), "response"))

(***************************************************************************)
(* FakeYou                                                                 *)
(***************************************************************************)
JobStatuses ==
    {"pending", "started", "complete_success", "complete_failure",
     "attempt_failed", "dead"}
AudioPaths == {Undef, "/a.wav"}
Jobs == [status : JobStatuses, maybe_public_bucket_wav_audio_path : AudioPaths]
NoJob == [status |-> Undef, maybe_public_bucket_wav_audio_path |-> Undef]

\* The characters of a set-cookie header: a word character, "=" and ";".
HeaderChars == {"a", "=", ";"}
MaxHeaderLen == 5
\* Status reads one call of waitForJobCompletion is followed for.
MaxReads == 3

RECURSIVE SeqsUpTo(_, _)
SeqsUpTo(S, n) ==
    IF n = 0 THEN {<<>>}
    ELSE LET shorter == SeqsUpTo(S, n - 1)
         IN shorter \cup {Append(q, c) : q \in shorter, c \in S}

\* The set-cookie header of a response: absent, or a string.
SetCookieHeaders == {<<Undef>>} \cup SeqsUpTo(HeaderChars, MaxHeaderLen)

IsWordChar(c) == c = "a"

RECURSIVE Chars(_)
Chars(q) == IF q = <<>> THEN "" ELSE Head(q) \o Chars(Tail(q))

\* init, lines 78-80: headers.get('set-cookie')?.match(/^\w+.=([^;]+)/)?.[1]
ExtractCookie(header) ==
    IF header = <<Undef>> THEN Undef
    ELSE LET n == Len(header)
             \* \w+ takes header[1..i], "." header[i+1], "=" is header[i+2]
             fits(i) == /\ \A j \in 1..i : IsWordChar(header[j])
                        /\ i + 3 <= n
                        /\ header[i + 2] = "="
                        /\ header[i + 3] # ";"
             ends == {i \in 1..n : fits(i)}
         IN IF ends = {} THEN Undef
            ELSE LET i == CHOOSE e \in ends : \A o \in ends : o <= e
                     stop == CHOOSE e \in (i + 3)..n :
                                /\ \A j \in (i + 3)..e : header[j] # ";"
                                /\ e = n \/ header[e + 1] = ";"
                 IN Chars(SubSeq(header, i + 3, stop))

FyIdle ==
    [pc |-> "idle",
     op |-> "none",
     outcome |-> "none",      \* none | returned | threw
     err |-> Undef,           \* the message of the error thrown
     job |-> NoJob,           \* the job returned
     \* history of the call, for the properties:
     reads |-> <<>>,          \* the responses of its status reads, in order
     sent |-> 0,              \* status reads issued
     sleeps |-> 0,            \* poll delays started
     ended |-> 0,             \* times the call returned or threw
     uploads |-> 0,           \* upload requests issued
     submits |-> 0,           \* inference (submit) requests issued
     downloads |-> 0,         \* result downloads issued
     url |-> Undef,           \* the result locator downloaded
     query |-> <<>>,          \* searchModel's arguments
     language |-> <<>>,
     models |-> <<>>,         \* the Model[] returned
     prevOp |-> "none",
     prevOutcome |-> "none"]

\* A response: res.ok, and of its JSON body the success flag and the payload.
FyResponse(ok, success, state) == [ok |-> ok, success |-> success, state |-> state]

FyResponses ==
    {FyResponse(FALSE, FALSE, NoJob), FyResponse(TRUE, FALSE, NoJob),
     FyResponse(TRUE, FALSE,
                [status |-> "complete_success",
                 maybe_public_bucket_wav_audio_path |-> "/a.wav"])}
        \cup {FyResponse(TRUE, TRUE, j) : j \in Jobs}

FyState == [c |-> sessionCookie, k |-> fy]

FyCommit(s) ==
    /\ sessionCookie' = s.c
    /\ fy' = s.k
    /\ UNCHANGED sunoVars

FyBegin(op) ==
    [FyState EXCEPT !.k = [FyIdle EXCEPT !.op = op, !.prevOp = fy.op,
                                         !.prevOutcome = fy.outcome]]

FyThrow(s, msg) ==
    [s EXCEPT !.k.pc = "idle", !.k.outcome = "threw", !.k.err = msg,
              !.k.ended = @ + 1]

FyReturn(s) ==
    [s EXCEPT !.k.pc = "idle", !.k.outcome = "returned", !.k.ended = @ + 1]

\* waitForJobCompletion, lines 129 and 132: the job is not finished.
StillRunning(job) == job.status = "pending" \/ job.status = "started"

\* waitForJobCompletion, line 128: the status read is issued.
readJob(s) == [s EXCEPT !.k.pc = "waitForJobCompletion:128", !.k.sent = @ + 1]

\* Mutant: the success flag of the envelope is not looked at.
request_IgnoresSuccess(res, path) ==
    IF ~res.ok THEN [threw |-> TRUE, err |-> "Failed to fetch " \o path, value |-> NoJob]
    ELSE [threw |-> FALSE, err |-> Undef, value |-> res.state]

\* fetchFakeYouApi, lines 40-42, then request, lines 60-63: the payload, or the
\* error thrown.
request(res, path) ==
    IF ~res.ok THEN [threw |-> TRUE, err |-> "Failed to fetch " \o path, value |-> NoJob]
    ELSE IF ~res.success
    THEN [threw |-> TRUE, err |-> "Failed to fetch " \o path, value |-> NoJob]
    ELSE [threw |-> FALSE, err |-> Undef, value |-> res.state]

\* Mutant: the result is downloaded whether or not the job names one.
jobReturned_Downloads(s, job) ==
    [s EXCEPT !.k.pc = IF s.k.op = "textToSpeech" THEN "textToSpeech:162"
                                                  ELSE "voiceToVoice:215",
              !.k.downloads = @ + 1,
              !.k.url = job.maybe_public_bucket_wav_audio_path]

\* textToSpeech, lines 159-162, and voiceToVoice, lines 212-215, on the job
\* waitForJobCompletion returned.
jobReturned(s, job) ==
    IF job.maybe_public_bucket_wav_audio_path = Undef
    THEN FyThrow(s, "Failed to get TTS inference result")
    ELSE [s EXCEPT !.k.pc = IF s.k.op = "textToSpeech" THEN "textToSpeech:162"
                                                       ELSE "voiceToVoice:215",
                   !.k.downloads = @ + 1,
                   !.k.url = job.maybe_public_bucket_wav_audio_path]

\* waitForJobCompletion, line 136: the job goes to the caller.
waitReturn(s, job) ==
    IF s.k.op = "waitForJobCompletion" THEN FyReturn([s EXCEPT !.k.job = job])
    ELSE jobReturned(s, job)

\* Mutant: a finished job is polled again.
jobAnswered_PollsOn(s, res) ==
    LET got == request(res, "tts/job/token")
    IN IF got.threw THEN FyThrow(s, got.err)
       ELSE IF StillRunning(got.value) \/ got.value.status = "complete_success"
       THEN [s EXCEPT !.k.pc = "waitForJobCompletion:130", !.k.sleeps = @ + 1]
       ELSE FyThrow(s, "TTS job failed with status: " \o got.value.status)

\* Mutant: a dead job is returned like a successful one.
jobAnswered_ReturnsDead(s, res) ==
    LET got == request(res, "tts/job/token")
        job == got.value
    IN IF got.threw THEN FyThrow(s, got.err)
       ELSE IF StillRunning(job)
       THEN [s EXCEPT !.k.pc = "waitForJobCompletion:130", !.k.sleeps = @ + 1]
       ELSE IF job.status \notin {"complete_success", "dead"}
       THEN FyThrow(s, "TTS job failed with status: " \o job.status)
       ELSE waitReturn(s, job)

\* waitForJobCompletion, lines 128-136, on the response of a status read.
jobAnswered(s, res) ==
    LET got == request(res, "tts/job/token")
        job == got.value
    IN IF got.threw THEN FyThrow(s, got.err)
       ELSE IF StillRunning(job)
       THEN [s EXCEPT !.k.pc = "waitForJobCompletion:130", !.k.sleeps = @ + 1]
       ELSE IF job.status # "complete_success"
       THEN FyThrow(s, "TTS job failed with status: " \o job.status)
       ELSE waitReturn(s, job)

\* init, lines 74-81, on the response of the login request.
loginAnswered(s, res, header) ==
    IF ~res.ok THEN FyThrow(s, "Failed to fetch v1/login")
    ELSE IF ~res.success THEN FyThrow(s, "Login failed")
    ELSE FyReturn([s EXCEPT !.c = ExtractCookie(header)])

\* deinit, lines 88-93, on the response of the logout request.
logoutAnswered(s, res) ==
    IF ~res.ok THEN FyThrow(s, "Failed to fetch v1/logout")
    ELSE IF ~res.success THEN FyThrow(s, "Logout failed")
    ELSE FyReturn([s EXCEPT !.c = Undef])

(***************************************************************************)
(* searchModel. Strings are sequences of characters; an absent language    *)
(* hint and the empty one are both <<>>, the test of line 109 being one of *)
(* truthiness.                                                             *)
(***************************************************************************)
Titles == {<<"a">>, <<"A">>, <<"b">>, <<"a", " ", "b">>}
LanguageTags == {<<"e", "n">>, <<"e", "n", "-", "U", "S">>, <<"i", "t">>}
Models == [title : Titles, ietf_language_tag : LanguageTags]
Queries == {<<>>, <<" ", "a", " ">>, <<"a", " ", " ", "b">>, <<"B">>}
Languages == {<<>>, <<"e", "n">>, <<"i", "t">>}
\* Models the list of the service holds at most.
MaxModels == 3

ModelLists == SeqsUpTo(Models, MaxModels)

ToLower(c) == IF c = "A" THEN "a" ELSE IF c = "B" THEN "b" ELSE c

\* line 102: the pattern of query.trim(), its characters taken literally
\* (escapeForRegex) and each run of whitespace replaced by \s+.
RECURSIVE Collapse(_)
Collapse(q) ==
    IF q = <<>> THEN <<>>
    ELSE IF IsSpace(Head(q))
    THEN LET rest == Collapse(Tail(q))
         IN IF rest # <<>> /\ Head(rest) = "\\s+" THEN rest ELSE <<"\\s+">> \o rest
    ELSE <<Head(q)>> \o Collapse(Tail(q))

filterRegex(query) == Collapse(Trim(query))

\* The pattern matches the text from position pos on (flag i).
RECURSIVE MatchesAt(_, _, _)
MatchesAt(pattern, text, pos) ==
    IF pattern = <<>> THEN TRUE
    ELSE IF pos > Len(text) THEN FALSE
    ELSE IF Head(pattern) = "\\s+"
    THEN /\ IsSpace(text[pos])
         /\ \/ MatchesAt(Tail(pattern), text, pos + 1)
            \/ MatchesAt(pattern, text, pos + 1)
    ELSE /\ ToLower(text[pos]) = ToLower(Head(pattern))
         /\ MatchesAt(Tail(pattern), text, pos + 1)

\* line 106: filterRegex.test(model.title)
RegexTest(pattern, text) ==
    \E pos \in 1..(Len(text) + 1) : MatchesAt(pattern, text, pos)

Filter(models, pattern) ==
    SelectSeq(models, LAMBDA m : RegexTest(pattern, m.title))

\* String.prototype.localeCompare: the letters first, whatever their case, the
\* space before them and a prefix before its extensions; then the lower case
\* before the upper case.
CharRank(c) == IF c = " " THEN 0 ELSE IF ToLower(c) = "a" THEN 1 ELSE 2

RECURSIVE ComparePrimary(_, _)
ComparePrimary(x, y) ==
    IF x = <<>> THEN (IF y = <<>> THEN 0 ELSE -1)
    ELSE IF y = <<>> THEN 1
    ELSE IF CharRank(Head(x)) < CharRank(Head(y)) THEN -1
    ELSE IF CharRank(Head(x)) > CharRank(Head(y)) THEN 1
    ELSE ComparePrimary(Tail(x), Tail(y))

RECURSIVE CompareCase(_, _)
CompareCase(x, y) ==
    IF x = <<>> \/ y = <<>> THEN 0
    ELSE IF Head(x) = Head(y) THEN CompareCase(Tail(x), Tail(y))
    ELSE IF ToLower(Head(x)) = Head(x) THEN -1 ELSE 1

localeCompare(x, y) ==
    IF ComparePrimary(x, y) # 0 THEN ComparePrimary(x, y) ELSE CompareCase(x, y)

\* ietf_language_tag.slice(0, 2)
Slice2(tag) == SubSeq(tag, 1, Min(2, Len(tag)))

\* Mutant: the comparator looks at the titles only.
compareModels_TitleOnly(a, b, language) == localeCompare(a.title, b.title)

\* lines 108-118: the comparator handed to sort.
compareModels(a, b, language) ==
    IF language # <<>> /\ Slice2(a.ietf_language_tag) = language THEN -1
    ELSE IF language # <<>> /\ Slice2(b.ietf_language_tag) = language THEN 1
    ELSE localeCompare(a.title, b.title)

\* Array.prototype.sort as V8 runs it on an array shorter than 64: the longest
\* run at the start, ascending or strictly descending by the comparator and in
\* the latter case reversed, then every later element placed by binary insertion.
\* The comparator of searchModel is not a consistent one (two models of the hinted
\* language each compare less than the other), so the order is the algorithm's.
RECURSIVE RunLength(_, _, _, _)
RunLength(q, n, descending, language) ==
    IF n = Len(q) THEN n
    ELSE LET order == compareModels(q[n + 1], q[n], language)
         IN IF (descending /\ order >= 0) \/ (~descending /\ order < 0) THEN n
            ELSE RunLength(q, n + 1, descending, language)

Reverse(q) == [i \in 1..Len(q) |-> q[Len(q) + 1 - i]]

RECURSIVE InsertionPoint(_, _, _, _, _)
InsertionPoint(q, pivot, left, right, language) ==
    IF left >= right THEN left
    ELSE LET mid == left + ((right - left) \div 2)
         IN IF compareModels(pivot, q[mid + 1], language) < 0
            THEN InsertionPoint(q, pivot, left, mid, language)
            ELSE InsertionPoint(q, pivot, mid + 1, right, language)

RECURSIVE BinaryInsertionSort(_, _, _)
BinaryInsertionSort(q, start, language) ==
    IF start >= Len(q) THEN q
    ELSE LET pivot == q[start + 1]
             left == InsertionPoint(q, pivot, 0, start, language)
             placed == SubSeq(q, 1, left) \o <<pivot>> \o SubSeq(q, left + 1, start)
                         \o SubSeq(q, start + 2, Len(q))
         IN BinaryInsertionSort(placed, start + 1, language)

Sort(q, language) ==
    IF Len(q) < 2 THEN q
    ELSE LET descending == compareModels(q[2], q[1], language) < 0
             run == RunLength(q, 2, descending, language)
             made == IF descending
                     THEN Reverse(SubSeq(q, 1, run)) \o SubSeq(q, run + 1, Len(q))
                     ELSE q
         IN BinaryInsertionSort(made, run, language)

\* searchModel, lines 105-119, on the response of tts/list.
modelsAnswered(s, ok, success, models) ==
    IF ~(ok /\ success) THEN FyThrow(s, "Failed to fetch tts/list")
    ELSE FyReturn([s EXCEPT !.k.models =
                      Sort(Filter(models, filterRegex(s.k.query)), s.k.language)])

SearchModel ==
    /\ fy.pc = "idle"
    /\ \E query \in Queries, language \in Languages :
          FyCommit([FyBegin("searchModel") EXCEPT !.k.pc = "searchModel:105",
                                                 !.k.query = query,
                                                 !.k.language = language])

ModelsAnswered ==
    /\ fy.pc = "searchModel:105"
    /\ \E ok \in BOOLEAN, success \in BOOLEAN, models \in ModelLists :
          FyCommit(modelsAnswered(FyState, ok, success, models))

FyInit ==
    /\ fy.pc = "idle"
    /\ FyCommit([FyBegin("init") EXCEPT !.k.pc = "init:67"])

FyLoginAnswered ==
    /\ fy.pc = "init:67"
    /\ \E ok \in BOOLEAN, success \in BOOLEAN, header \in SetCookieHeaders :
          FyCommit(loginAnswered(FyState, FyResponse(ok, success, NoJob), header))

FyDeinit ==
    /\ fy.pc = "idle"
    /\ FyCommit([FyBegin("deinit") EXCEPT !.k.pc = "deinit:85"])

FyLogoutAnswered ==
    /\ fy.pc = "deinit:85"
    /\ \E ok \in BOOLEAN, success \in BOOLEAN :
          FyCommit(logoutAnswered(FyState, FyResponse(ok, success, NoJob)))

WaitForJobCompletion ==
    /\ fy.pc = "idle"
    /\ FyCommit(readJob(FyBegin("waitForJobCompletion")))

JobAnswered ==
    /\ fy.pc = "waitForJobCompletion:128"
    /\ \E res \in FyResponses :
          FyCommit(jobAnswered([FyState EXCEPT !.k.reads = Append(@, res)], res))

\* textToSpeech, lines 144-157: the inference request is issued.
TextToSpeech ==
    /\ fy.pc = "idle"
    /\ FyCommit([FyBegin("textToSpeech") EXCEPT !.k.pc = "textToSpeech:144",
                                                !.k.submits = @ + 1])

\* voiceToVoice, lines 179-195: the upload request is issued.
VoiceToVoice ==
    /\ fy.pc = "idle"
    /\ FyCommit([FyBegin("voiceToVoice") EXCEPT !.k.pc = "voiceToVoice:188",
                                                !.k.uploads = @ + 1])

\* voiceToVoice, lines 188-210, on the response of the upload. The inference
\* request has a body and no method: fetch rejects a GET with a body with a
\* TypeError where it follows the standard, and sends it where it does not.
UploadAnswered ==
    /\ fy.pc = "voiceToVoice:188"
    /\ \E ok \in BOOLEAN, success \in BOOLEAN, sends \in BOOLEAN :
          LET got == request(FyResponse(ok, success, NoJob),
                             "v1/media_uploads/upload_audio")
          IN FyCommit(IF got.threw THEN FyThrow(FyState, got.err)
                      ELSE IF ~sends THEN FyThrow(FyState, "TypeError")
                      ELSE [FyState EXCEPT !.k.pc = "voiceToVoice:197",
                                           !.k.submits = @ + 1])

\* textToSpeech, lines 144-158, and voiceToVoice, lines 197-211, on the response
\* of the inference request: waitForJobCompletion is called.
InferenceAnswered ==
    /\ fy.pc \in {"textToSpeech:144", "voiceToVoice:197"}
    /\ \E ok \in BOOLEAN, success \in BOOLEAN :
          LET got == request(FyResponse(ok, success, NoJob),
                             IF fy.op = "textToSpeech" THEN "tts/inference"
                             ELSE "v1/voice_conversion/inference")
          IN FyCommit(IF got.threw THEN FyThrow(FyState, got.err)
                      ELSE readJob(FyState))

\* textToSpeech, lines 162-165, and voiceToVoice, lines 215-218: the download is
\* answered, with whatever status, and its body is returned.
DownloadAnswered ==
    /\ fy.pc \in {"textToSpeech:162", "voiceToVoice:215"}
    /\ FyCommit(FyReturn(FyState))

\* The download fails on the network: fetch rejects.
DownloadFailed ==
    /\ fy.pc \in {"textToSpeech:162", "voiceToVoice:215"}
    /\ FyCommit(FyThrow(FyState, "TypeError"))

\* Mutant: the poll delay ends the call, as a deadline would.
PollTimer_GivesUp ==
    /\ fy.pc = "waitForJobCompletion:130"
    /\ FyCommit(FyThrow(FyState, "timeout"))

\* The timer of the poll delay fires; the history follows MaxReads reads.
PollTimer ==
    /\ fy.pc = "waitForJobCompletion:130"
    /\ fy.sent < MaxReads
    /\ FyCommit(readJob(FyState))

(***************************************************************************)
(* Specifications                                                          *)
(***************************************************************************)

SunoInit ==
    /\ cookie = Undef
    /\ sid = Undef
    /\ currentToken = Undef
    /\ lastAnswered = Undef
    /\ cleared = FALSE
    /\ task = [t \in Callers |-> IdleTask]

Init ==
    /\ SunoInit
    /\ sessionCookie = Undef
    /\ fy = FyIdle

\* One caller, one call after the other, without wait_audio.
Next ==
    \E t \in {"a"} :
        \/ \E c \in Cookies : init(t, c)
        \/ deinit(t)
        \/ \E w \in BOOLEAN : KeepAlive(t, w)
        \/ Generate(t, FALSE)
        \/ CustomGenerate(t, FALSE)
        \/ Concatenate(t)
        \/ GenerateLyrics(t)
        \/ ExtendAudio(t)
        \/ \E ids \in SongIdLists : Get(t, ids)
        \/ GetClip(t)
        \/ GetCredits(t)
        \/ RequestFailed(t)
        \/ SessionAnswered(t)
        \/ RenewAnswered(t)
        \/ RenewSlept(t)
        \/ SubmitAnswered(t)
        \/ FeedAnswered(t)
        \/ LyricsSubmitted(t)
        \/ LyricsAnswered(t)
        \/ LyricsSlept(t)
        \/ PlainAnswered(t)

Spec == Init /\ [][Next]_vars

\* The one caller, every request answered and every timer fired.
LiveSpec ==
    /\ Init /\ [][Next]_vars
    /\ WF_vars(LyricsAnswered("a"))
    /\ WF_vars(LyricsSlept("a"))

\* generate and customGenerate called once on an initialized client.
PollInit ==
    /\ cookie = "ck1"
    /\ sid = "sid1"
    /\ currentToken = "jwt1"
    /\ lastAnswered = "jwt1"
    /\ cleared = FALSE
    /\ task = [t \in Callers |-> IdleTask]
    /\ sessionCookie = Undef
    /\ fy = FyIdle

PollNext ==
    \E t \in {"a"} :
        \/ \E w \in BOOLEAN : task[t].op = "none" /\ Generate(t, w)
        \/ \E w \in BOOLEAN : task[t].op = "none" /\ CustomGenerate(t, w)
        \/ RequestFailed(t)
        \/ RenewAnswered(t)
        \/ RenewSlept(t)
        \/ SubmitAnswered(t)
        \/ InitialSlept(t)
        \/ FeedAnswered(t)
        \/ PollSlept(t)

PollSpec == PollInit /\ [][PollNext]_vars

\* The FakeYou client, one call after the other.
FyNext ==
    \/ FyInit
    \/ FyLoginAnswered
    \/ FyDeinit
    \/ FyLogoutAnswered
    \/ WaitForJobCompletion
    \/ JobAnswered
    \/ PollTimer
    \/ TextToSpeech
    \/ VoiceToVoice
    \/ UploadAnswered
    \/ InferenceAnswered
    \/ DownloadAnswered
    \/ DownloadFailed

FySpec == Init /\ [][FyNext]_vars

\* searchModel, one call after the other.
SearchNext ==
    \/ SearchModel
    \/ ModelsAnswered

SearchSpec == Init /\ [][SearchNext]_vars

\* Every request is answered and every timer fires.
FyLiveSpec ==
    /\ Init /\ [][FyNext]_vars
    /\ WF_vars(JobAnswered)
    /\ WF_vars(PollTimer)

\* Two callers whose calls overlap.
ConcNext ==
    \E t \in Callers :
        \/ \E c \in Cookies : init(t, c)
        \/ deinit(t)
        \/ \E w \in BOOLEAN : KeepAlive(t, w)
        \/ RequestFailed(t)
        \/ SessionAnswered(t)
        \/ RenewAnswered(t)
        \/ RenewSlept(t)

ConcSpec == Init /\ [][ConcNext]_vars

(***************************************************************************)
(* Properties                                                              *)
(***************************************************************************)
Last(q) == q[Len(q)]
Caller == task["a"]

\* A status read answered with a job, and the status it shows.
ShowsStatus(res, statuses) ==
    res.ok /\ res.success /\ res.state.status \in statuses

\* Zero or more reads of a running job, then one read that shows `final`.
Script(reads, final) ==
    /\ reads # <<>>
    /\ \A i \in 1..(Len(reads) - 1) : ShowsStatus(reads[i], {"pending", "started"})
    /\ ShowsStatus(Last(reads), final)

\* C1: FakeYou.waitForJobCompletion, once its status reads are zero or more
\* 'pending'/'started' reads followed by a 'complete_success' read, has returned
\* exactly once, with the job of that read, and has issued no status read and
\* started no sleep after it.
C1_ReturnsAtFirstSuccess ==
    (fy.op = "waitForJobCompletion" /\ Script(fy.reads, {"complete_success"}))
        => /\ fy.pc = "idle"
           /\ fy.outcome = "returned"
           /\ fy.ended = 1
           /\ fy.job = Last(fy.reads).state
           /\ fy.sent = Len(fy.reads)
           /\ fy.sleeps = Len(fy.reads) - 1

C1_Witness ==
    /\ fy.op = "waitForJobCompletion"
    /\ Script(fy.reads, {"complete_success"})
    /\ Len(fy.reads) = 3
    /\ fy.outcome = "returned"

\* C2: FakeYou.waitForJobCompletion, once the first status read that is neither
\* 'pending' nor 'started' shows a failure status, has failed with an error whose
\* message carries that status, and has returned no job.
C2_FailsWithStatus ==
    (fy.op = "waitForJobCompletion"
        /\ Script(fy.reads, {"complete_failure", "attempt_failed", "dead"}))
        => /\ fy.pc = "idle"
           /\ fy.outcome = "threw"
           /\ fy.ended = 1
           /\ fy.err = "TTS job failed with status: " \o Last(fy.reads).state.status
           /\ fy.job = NoJob

C2_Witness ==
    /\ fy.op = "waitForJobCompletion"
    /\ Script(fy.reads, {"dead"})
    /\ Len(fy.reads) = 2
    /\ fy.outcome = "threw"

WaitCall ==
    /\ Caller.op \in {"generate", "customGenerate"}
    /\ Caller.waitAudio
    /\ Caller.pc = "idle"

\* C3: generate/customGenerate with wait_audio, when every request was answered
\* and no status read answered before the 100-second deadline showed every clip
\* in a terminal state, returns without error the normalized result of the last
\* status read that was made.
C3_DeadlineReturnsLastRead ==
    (WaitCall /\ Caller.outcome # "none" /\ Caller.err = Undef
        /\ ~Caller.terminalRead)
        => /\ Caller.outcome = "returned"
           /\ Caller.lastRead # <<>>
           /\ Caller.audios = AudioInfosOfFeed(Caller.lastRead)

C3_Witness ==
    /\ WaitCall
    /\ Caller.outcome = "returned"
    /\ ~Caller.terminalRead
    /\ Caller.lastRead # <<>>
    /\ \E i \in 1..Len(Caller.lastRead) : Caller.lastRead[i].status = "queued"
    /\ Caller.lastRead[1].prompt # <<>>

EveryClipInError(read) ==
    read # <<>> /\ \A i \in 1..Len(read) : read[i].status = "error"

Count(q, x) == Cardinality({i \in 1..Len(q) : q[i] = x})

RenewingReads == {"get", "getClip", "getCredits", "concatenate"}

\* C5: a call of get, getClip, getCredits or concatenate on an initialized client
\* sends exactly one renewal request; its service request is sent after that
\* renewal was answered and carries the bearer token that renewal returned, so
\* that of two calls in sequence the second carries the second renewal's token.
C5_OneRenewalPerCall ==
    (Caller.op \in RenewingReads /\ Caller.trace # <<>>)
        => /\ Caller.trace[1] = "renew"
           /\ Count(Caller.trace, "renew") = 1
           /\ ~Caller.more
           /\ Caller.api # NoRequest
                 => /\ SubSeq(Caller.trace, 1, 3) = <<"renew", "renew:ok", "api">>
                    /\ Caller.api.auth = Caller.renewed
           /\ Caller.outcome = "returned"
                 => /\ Caller.trace = <<"renew", "renew:ok", "api", "api:ok">>
                    /\ currentToken = Caller.renewed

C5_Witness ==
    /\ Caller.op \in RenewingReads
    /\ Caller.outcome = "returned"
    /\ Caller.prevOp \in RenewingReads
    /\ Caller.prevOutcome = "returned"
    /\ Caller.prevRenewed # Caller.renewed
    /\ Caller.api.auth = Caller.renewed

\* C6 as stated: the first request a public operation sends to the service API
\* is sent after a renewal of the same call was answered.
C6_RenewalBeforeServiceRequest ==
    Caller.api # NoRequest
        => \E j \in 1..Len(Caller.trace) :
              /\ Caller.trace[j] = "renew:ok"
              /\ \A i \in 1..j : Caller.trace[i] # "api"

\* C7 as stated: when no call is pending, the stored token is the one returned
\* by the renewal request the service answered last.
C7_LastAnsweredWins ==
    ((\A t \in Callers : task[t].pc = "idle") /\ lastAnswered # Undef)
        => currentToken = lastAnswered

\* C8: init(cookie), when it returns, has sent one session-identifier request and
\* then one renewal request, each answered, and nothing else; the cookie is the
\* one given, the session identifier is set and the bearer token is the one that
\* renewal returned.
C8_InitSetsCredentials ==
    (Caller.op = "init" /\ Caller.outcome = "returned")
        => /\ Caller.trace = <<"session", "session:ok", "renew", "renew:ok">>
           /\ ~Caller.more
           /\ cookie = Caller.arg /\ cookie \in Cookies
           /\ sid \in Sids
           /\ currentToken = Caller.renewed /\ currentToken \in Jwts

C8_Witness ==
    /\ Caller.op = "init"
    /\ Caller.outcome = "returned"
    /\ Caller.prevOp = "deinit"

\* C9 as stated: init never returns with the session credential unset (FakeYou:
\* the session cookie; Suno: the session identifier).
C9_InitYieldsCredential ==
    /\ (fy.op = "init" /\ fy.outcome = "returned") => sessionCookie # Undef
    /\ (Caller.op = "init" /\ Caller.outcome = "returned") => sid # Undef

\* C10: deinit always returns, and leaves cookie, session identifier and bearer
\* token unset, whatever they were before and also when the call before it was
\* a deinit.
C10_DeinitClears ==
    (Caller.op = "deinit")
        => /\ Caller.pc = "idle"
           /\ Caller.outcome = "returned"
           /\ cookie = Undef /\ sid = Undef /\ currentToken = Undef

C10_Witness ==
    /\ Caller.op = "deinit"
    /\ Caller.prevOp = "deinit"
    /\ Caller.prevOutcome = "returned"
    /\ Caller.outcome = "returned"


\* C11: FakeYou deinit(), once it has been called and has ended, has succeeded and
\* the client holds no session cookie; this also on a client that holds none.
C11_FyDeinitClears ==
    (fy.op = "deinit" /\ fy.pc = "idle")
        => fy.outcome = "returned" /\ sessionCookie = Undef

\* The calls that poll a FakeYou job.
FyPolls == {"waitForJobCompletion", "textToSpeech", "voiceToVoice"}

\* C12: in a polling loop a status read that fails with a transport error does
\* not end the operation (the loop reads again), and the submit request is issued
\* once per operation.
C12_FailedReadRetried ==
    (fy.op \in FyPolls /\ fy.reads # <<>> /\ ~Last(fy.reads).ok)
        => fy.outcome = "none" /\ fy.submits <= 1

\* A status read shows the job finished with success and without a result locator.
MissingResult(res) ==
    /\ ShowsStatus(res, {"complete_success"})
    /\ res.state.maybe_public_bucket_wav_audio_path = Undef

\* C13: textToSpeech and voiceToVoice, when the polled job reaches
\* complete_success without a result locator, fail with an error, issue no
\* further status read and download nothing.
C13_MissingResultFails ==
    (fy.op \in {"textToSpeech", "voiceToVoice"} /\ fy.reads # <<>>
        /\ MissingResult(Last(fy.reads)))
        => /\ fy.pc = "idle"
           /\ fy.outcome = "threw"
           /\ fy.err = "Failed to get TTS inference result"
           /\ fy.ended = 1
           /\ fy.sent = Len(fy.reads)
           /\ fy.downloads = 0
           /\ fy.submits = 1

C13_Witness ==
    /\ fy.op = "textToSpeech"
    /\ Len(fy.reads) = 2
    /\ ShowsStatus(fy.reads[1], {"started"})
    /\ MissingResult(fy.reads[2])
    /\ fy.outcome = "threw"

\* C14: request returns the payload field exactly when the status is 2xx and the
\* success flag is true (seen here in what waitForJobCompletion does with the
\* job); otherwise, and so for a 2xx response whose success flag is false, it
\* fails with an error carrying the path and no payload is returned.
C14_PayloadIffSuccess ==
    (fy.op = "waitForJobCompletion" /\ fy.reads # <<>>)
        => LET res == Last(fy.reads)
               job == res.state
           IN IF res.ok /\ res.success
              THEN IF StillRunning(job) THEN fy.outcome = "none"
                   ELSE IF job.status = "complete_success"
                   THEN fy.outcome = "returned" /\ fy.job = job
                   ELSE /\ fy.outcome = "threw"
                        /\ fy.err = "TTS job failed with status: " \o job.status
              ELSE /\ fy.outcome = "threw"
                   /\ fy.err = "Failed to fetch tts/job/token"
                   /\ fy.job = NoJob

C14_Witness ==
    /\ fy.op = "waitForJobCompletion"
    /\ Len(fy.reads) = 1
    /\ fy.reads[1].ok /\ ~fy.reads[1].success
    /\ fy.reads[1].state.status = "complete_success"
    /\ fy.outcome = "threw"
    /\ fy.job = NoJob

\* Every status read of the call so far showed the job pending or started.
OnlyRunningReads ==
    \A i \in 1..Len(fy.reads) : ShowsStatus(fy.reads[i], {"pending", "started"})

\* C19: waitForJobCompletion has no deadline. While every read shows the job
\* pending or started the call neither returns nor fails; and when every read
\* is answered, a call ends unless the job is still running after MaxReads reads.
C19_NoDeadline ==
    /\ []((fy.op = "waitForJobCompletion" /\ OnlyRunningReads)
            => fy.outcome = "none" /\ fy.pc # "idle")
    /\ ((fy.op = "waitForJobCompletion" /\ fy.pc # "idle")
            ~> (fy.pc = "idle" \/ (OnlyRunningReads /\ Len(fy.reads) = MaxReads)))

C19_Witness ==
    /\ fy.op = "waitForJobCompletion"
    /\ OnlyRunningReads
    /\ Len(fy.reads) = MaxReads - 1
    /\ fy.sent = MaxReads
    /\ fy.pc = "waitForJobCompletion:128"

\* The model's language tag begins with the hint searchModel was called with.
HasLanguage(m) == Slice2(m.ietf_language_tag) = fy.language

SearchReturned == fy.op = "searchModel" /\ fy.outcome = "returned"

\* C15: in the list searchModel returns for a language hint, every model whose
\* tag's first two characters equal the hint comes before every model whose tag
\* does not.
C15_LanguageMatchesFirst ==
    (SearchReturned /\ fy.language # <<>>)
        => \A i, j \in 1..Len(fy.models) :
              (HasLanguage(fy.models[i]) /\ ~HasLanguage(fy.models[j])) => i < j

C15_Witness ==
    /\ SearchReturned
    /\ fy.language = <<"e", "n">>
    /\ Len(fy.models) = 3
    /\ HasLanguage(fy.models[1]) /\ HasLanguage(fy.models[2])
    /\ ~HasLanguage(fy.models[3])
    /\ localeCompare(fy.models[2].title, fy.models[3].title) > 0

\* C16: in the list searchModel returns, two models that tie on the language
\* criterion (both match the hint, neither does, or there is no hint) stand in
\* the order of their titles.
C16_TiesByTitle ==
    SearchReturned
        => \A i, j \in 1..Len(fy.models) :
              (i < j /\ (fy.language = <<>>
                            \/ HasLanguage(fy.models[i]) = HasLanguage(fy.models[j])))
                 => localeCompare(fy.models[i].title, fy.models[j].title) <= 0

\* C17: when a body is supplied to the transport helper, the request it issues
\* carries that body (seen on the first service request of a call).
C17_BodyCarried ==
    (Caller.api # NoRequest /\ Caller.given # Undef)
        => Caller.api.body = Caller.given

\* Every clip of the read is in a terminal state, in any mix.
AllTerminal(read) ==
    /\ read # <<>>
    /\ \A i \in 1..Len(read) : read[i].status \in {"streaming", "complete", "error"}

\* C18: in the wait loop of generateSongs, once a status read has shown every
\* clip in a terminal state no further status read is issued.
C18_NoReadAfterTerminal ==
    (Caller.op \in {"generate", "customGenerate"} /\ Caller.waitAudio
        /\ AllTerminal(Caller.lastRead))
        => Caller.pc # "get:392"

\* C20: generateLyrics, once a read shows the lyrics job failed, ends by throwing
\* (unless the job leaves that state): it does not go on polling forever.
C20_FailedLyricsThrow ==
    (Caller.op = "generateLyrics" /\ Caller.lyricsStatus = "error")
        ~> (Caller.outcome = "threw" \/ Caller.lyricsStatus # "error")

\* C21: once deinit has returned, and until init is called again, the bearer
\* token and the session id stay unset, whatever call is still in flight.
C21_StaysCleared ==
    cleared => currentToken = Undef /\ sid = Undef

\* C22: a keepAlive call that fails leaves the cookie, the session id and the
\* bearer token as they were when it was called; without a session id it fails
\* before any request, and otherwise on its one renewal request.
C22_FailedRenewalKeepsCredentials ==
    (Caller.op = "keepAlive" /\ Caller.outcome = "threw")
        => /\ cookie = Caller.pre.cookie
           /\ sid = Caller.pre.sid
           /\ currentToken = Caller.pre.token
           /\ IF Caller.pre.sid = Undef
              THEN /\ Caller.trace = <<>>
                   /\ Caller.err = "Session ID is not set. Cannot renew token."
              ELSE /\ Caller.trace = <<"renew", "failed">>
                   /\ Caller.err = "Failed to fetch /v1/client/sessions/"
                                      \o sid \o "/tokens"

C22_Witness ==
    /\ Caller.op = "keepAlive"
    /\ Caller.outcome = "threw"
    /\ Caller.trace = <<"renew", "failed">>
    /\ currentToken \in Jwts
    /\ Caller.prevOp = "keepAlive"
    /\ Caller.prevOutcome = "threw"

\* C23: with one caller, one call after the other, a stored bearer token comes
\* with a stored session id, and a stored session id with a stored cookie.
C23_CredentialsNested ==
    /\ currentToken # Undef => sid # Undef
    /\ sid # Undef => cookie # Undef

C23_Witness ==
    /\ Caller.op = "init"
    /\ Caller.outcome = "threw"
    /\ Caller.prevOutcome = "returned"
    /\ currentToken # Undef
    /\ sid # Undef
    /\ cookie = Caller.arg

====
